---- MODULE Spec2Model ----
(***************************************************************************)
(* Model of the rust-book-exercises starter crates.                        *)
(*                                                                         *)
(*   week6/p1_asyncfs.rs : File::read_async, its worker thread and         *)
(*                         ReadFile::poll        (specifications Spec,     *)
(*                                                FairSpec)                *)
(*   week1/p1_collatz.rs : collatz_recursive / collatz_iterative           *)
(*                                               (specification            *)
(*                                                CollatzSpec)             *)
(*   week4/p1_iter.rs    : CacheableIterator, CartesianIterator::next      *)
(*                                               (specification IterSpec)  *)
(*   week5/p1_context.rs : Context::set / get / pop, Dropper::drop         *)
(*                                               (specification CtxSpec)   *)
(***************************************************************************)
EXTENDS Integers, Sequences, FiniteSets, TLC

\* ------------------------------------------------------------------ bounds
\* longest resource modelled, in bytes
MaxLen == 2
\* distinct byte values
NumBytes == 2
\* distinct wakers the executor may hand to poll
NumWakers == 2
\* polls made without a preceding wake-up (spurious polls, polls after Ready)
MaxSpurious == 2
\* largest argument given to the collatz functions
MaxCollatzN == 10
\* longest input of the cartesian product, and distinct items
MaxIterLen == 3
NumItems == 2
\* calls of CartesianIterator::next after the first None
MaxExtraCalls == 1
\* threads using the Context, distinct values set, and calls of set
NumThreads == 2
NumVals == 2
MaxSets == 2

Bytes == 1..NumBytes
Wakers == 1..NumWakers

RECURSIVE SeqsUpTo(_)
SeqsUpTo(k) ==
    IF k = 0 THEN {<<>>}
    ELSE LET S == SeqsUpTo(k - 1)
         IN  S \cup {Append(s, b) : s \in {t \in S : Len(t) = k - 1}, b \in Bytes}

\* every content a resource may have
Contents == SeqsUpTo(MaxLen)

VARIABLES
    \* --- the resource and the environment
    contents,   \* bytes of the resource behind the File
    offset,     \* cursor of the open file description; File::try_clone
                \* duplicates the descriptor, so self and file_copy share it
    cloneable,  \* whether self.try_clone() succeeds
    readable,   \* whether file_copy.read_to_end() succeeds
    \* --- the calling task
    caller,     \* "start" | "awaiting" | "dropped" | "panicked"
    notified,   \* the executor has the task scheduled for a poll
    spurious,   \* polls made so far without a wake-up
    wakes,      \* [Wakers -> Nat]: invocations of each waker
    \* --- SharedState behind Arc<Mutex<..>>
    file_data,  \* Option<Vec<u8>>
    ready,      \* bool
    waker,      \* Option<Waker>: 0 is None
    mutex,      \* holder of the MutexGuard: "free" | "worker" | "poll"
    poisoned,   \* the mutex was unlocked by a panicking thread
    \* --- the worker thread
    worker,     \* "none" | "spawned" | "reading" | "read_ok" | "wrote"
                \* | "set_ready" | "woke" | "done" | "panicked"
    buf,        \* the closure's local buf
    \* --- a poll in progress
    poller,     \* "idle" | "locking" | "locked" | "registering"
    cx,         \* waker of the Context handed to the poll in progress
    lastPoll,   \* what the most recent poll returned
    polled,     \* what every poll so far returned, oldest first
    arc,        \* strong count of the Arc<Mutex<SharedState>>; 0: not
                \* allocated, or released
    \* --- collatz
    cfun,       \* "none" | "recursive" | "iterative"
    cn,         \* the argument n
    cr,         \* current value (r, or the argument of the innermost call)
    ci,         \* iterative: i; recursive: value being returned
    cdepth,     \* recursive: frames waiting for their callee
    cpc,        \* "run" | "unwind" | "done"
    \* --- cartesian product
    xs,         \* the items the first input iterator yields
    ys,         \* the items the second input iterator yields
    first,      \* CartesianIterator::first, a CacheableIterator
    second,     \* CartesianIterator::second
    idx_first,  \* CartesianIterator::idx_first
    idx_second, \* CartesianIterator::idx_second
    ipc,        \* "idle" | "loop": inside next() or not
    iters,      \* turns of the loop made by the current (or last) call
    out,        \* what the calls of next() returned, oldest first
    \* --- context
    values,     \* Context::values, the Vec<T> behind the mutex
    xmutex,     \* thread holding the MutexGuard; 0: free
    tpc,        \* per thread: "idle", or inside "set" | "pop" | "get"
                \* holding the lock
    targ,       \* per thread: the value being set, or the Dropper being
                \* dropped (0 otherwise)
    got,        \* what the most recent get() returned
    guards,     \* the Droppers created and not yet dropped, oldest first
    nextId,     \* Droppers created so far
    nested,     \* every drop so far was of the newest live Dropper
    directPop   \* pop() was called other than by Dropper::drop

avars == <<contents, offset, cloneable, readable, caller, notified, spurious,
           wakes, file_data, ready, waker, mutex, poisoned, worker, buf,
           poller, cx, lastPoll, polled, arc>>
cvars == <<cfun, cn, cr, ci, cdepth, cpc>>
ivars == <<xs, ys, first, second, idx_first, idx_second, ipc, iters, out>>
xvars == <<values, xmutex, tpc, targ, got, guards, nextId, nested, directPop>>
vars == <<avars, cvars, ivars, xvars>>

\* ------------------------------------------------------------ value shapes
None == [tag |-> "None", val |-> <<>>]
Some(v) == [tag |-> "Some", val |-> v]

\* Poll<io::Result<Vec<u8>>>, plus "NotPolled" before the first poll and
\* "Panic" for a poll that unwound instead of returning
NotPolled == [kind |-> "NotPolled", ok |-> FALSE, val |-> <<>>, w |-> 0]
Pending(w) == [kind |-> "Pending", ok |-> FALSE, val |-> <<>>, w |-> w]
ReadyOk(v) == [kind |-> "Ready", ok |-> TRUE, val |-> v, w |-> 0]
PollPanic == [kind |-> "Panic", ok |-> FALSE, val |-> <<>>, w |-> 0]

\* ------------------------------------------------------------------- Init
AsyncInit ==
    /\ contents \in Contents
    /\ offset = 0
    /\ cloneable \in BOOLEAN
    /\ readable \in BOOLEAN
    /\ caller = "start"
    /\ notified = FALSE
    /\ spurious = 0
    /\ wakes = [w \in Wakers |-> 0]
    /\ file_data = None
    /\ ready = FALSE
    /\ waker = 0
    /\ mutex = "free"
    /\ poisoned = FALSE
    /\ worker = "none"
    /\ buf = <<>>
    /\ poller = "idle"
    /\ cx = 0
    /\ lastPoll = NotPolled
    /\ polled = <<>>
    /\ arc = 0

AsyncIdle ==
    /\ contents = <<>>
    /\ offset = 0
    /\ cloneable = TRUE
    /\ readable = TRUE
    /\ caller = "start"
    /\ notified = FALSE
    /\ spurious = 0
    /\ wakes = [w \in Wakers |-> 0]
    /\ file_data = None
    /\ ready = FALSE
    /\ waker = 0
    /\ mutex = "free"
    /\ poisoned = FALSE
    /\ worker = "none"
    /\ buf = <<>>
    /\ poller = "idle"
    /\ cx = 0
    /\ lastPoll = NotPolled
    /\ polled = <<>>
    /\ arc = 0

CollatzIdle ==
    /\ cfun = "none"
    /\ cn = 1
    /\ cr = 1
    /\ ci = 0
    /\ cdepth = 0
    /\ cpc = "done"

\* Option<usize>::None of CacheableIterator::last_idx
NoIdx == -1

Items == 1..NumItems
Threads == 1..NumThreads
Vals == 1..NumVals

\* Option<T> of an item or a context value
NoneT == [tag |-> "None", val |-> 0]
SomeT(v) == [tag |-> "Some", val |-> v]
\* a thread that has not called get()
NotCalled == [tag |-> "NotCalled", val |-> 0]

\* CacheableIterator::new
NewCacheable(items) == [iter |-> items, cache |-> <<>>, last_idx |-> NoIdx]

IterIdle ==
    /\ xs = <<>>
    /\ ys = <<>>
    /\ first = NewCacheable(<<>>)
    /\ second = NewCacheable(<<>>)
    /\ idx_first = 0
    /\ idx_second = 0
    /\ ipc = "idle"
    /\ iters = 0
    /\ out = <<>>

\* Context::new
CtxInit ==
    /\ values = <<>>
    /\ xmutex = 0
    /\ tpc = [t \in Threads |-> "idle"]
    /\ targ = [t \in Threads |-> 0]
    /\ got = NotCalled
    /\ guards = <<>>
    /\ nextId = 0
    /\ nested = TRUE
    /\ directPop = FALSE

Init == AsyncInit /\ CollatzIdle /\ IterIdle /\ CtxInit

\* --------------------------------------------------- the caller's own handle
\* The caller reads k bytes through the File it owns.  The exclusive borrow
\* `&'a mut self` held by ReadFile<'a> rules this out while the promise is
\* alive, so it happens before read_async or after the promise is dropped.
CallerRead ==
    /\ caller \in {"start", "dropped"}
    /\ offset < Len(contents)
    /\ \E k \in 1..(Len(contents) - offset) : offset' = offset + k
    /\ UNCHANGED <<contents, cloneable, readable, caller, notified, spurious,
                   wakes, file_data, ready, waker, mutex, poisoned, worker,
                   buf, poller, cx, lastPoll, polled>>
    /\ UNCHANGED arc
    /\ UNCHANGED <<cvars, ivars, xvars>>

\* ------------------------------------------------------------- read_async
\* lines 57-84 with try_clone() returning Ok: the SharedState is allocated,
\* the worker is spawned, the promise is returned and the caller awaits it
\* (the await polls it a first time).
ReadAsync ==
    /\ caller = "start"
    /\ cloneable
    /\ file_data' = None
    /\ ready' = FALSE
    /\ waker' = 0
    /\ worker' = "spawned"
    /\ caller' = "awaiting"
    /\ notified' = TRUE
    /\ UNCHANGED <<contents, offset, cloneable, readable, spurious, wakes,
                   mutex, poisoned, buf, poller, cx, lastPoll, polled>>
    /\ arc' = 2
    /\ UNCHANGED <<cvars, ivars, xvars>>

\* line 65 with try_clone() returning Err: unwrap() panics in the caller;
\* no thread is spawned and no promise is returned.
ReadAsyncCloneErr ==
    /\ caller = "start"
    /\ ~cloneable
    /\ caller' = "panicked"
    /\ UNCHANGED <<contents, offset, cloneable, readable, notified, spurious,
                   wakes, file_data, ready, waker, mutex, poisoned, worker,
                   buf, poller, cx, lastPoll, polled>>
    /\ UNCHANGED arc
    /\ UNCHANGED <<cvars, ivars, xvars>>

\* ------------------------------------------------------ the worker thread
\* mutant of WorkerLock: the worker goes on to read and write the shared
\* state without holding the mutex
WorkerLockNoGuard ==
    /\ worker = "spawned"
    /\ worker' = "reading"
    /\ buf' = <<>>
    /\ UNCHANGED <<contents, offset, cloneable, readable, caller, notified,
                   spurious, wakes, file_data, ready, waker, mutex, poisoned,
                   poller, cx, lastPoll, polled>>
    /\ UNCHANGED arc
    /\ UNCHANGED <<cvars, ivars, xvars>>

\* line 68: thread_shared_state.lock().unwrap(); the guard lives until the
\* closure returns or unwinds.  Blocks while a poll holds the mutex.
WorkerLock ==
    /\ worker = "spawned"
    /\ mutex = "free"
    /\ mutex' = "worker"
    /\ worker' = "reading"
    /\ buf' = <<>>
    /\ UNCHANGED <<contents, offset, cloneable, readable, caller, notified,
                   spurious, wakes, file_data, ready, waker, poisoned, poller,
                   cx, lastPoll, polled>>
    /\ UNCHANGED arc
    /\ UNCHANGED <<cvars, ivars, xvars>>

\* line 71, one read() of read_to_end's loop: k bytes at the shared cursor
\* are appended to buf and the cursor advances.
WorkerReadChunk ==
    /\ worker = "reading"
    /\ readable
    /\ offset < Len(contents)
    /\ \E k \in 1..(Len(contents) - offset) :
          /\ buf' = buf \o SubSeq(contents, offset + 1, offset + k)
          /\ offset' = offset + k
    /\ UNCHANGED <<contents, cloneable, readable, caller, notified, spurious,
                   wakes, file_data, ready, waker, mutex, poisoned, worker,
                   poller, cx, lastPoll, polled>>
    /\ UNCHANGED arc
    /\ UNCHANGED <<cvars, ivars, xvars>>

\* line 71, the read() that returns 0 at end of file: read_to_end is Ok(_).
WorkerReadEof ==
    /\ worker = "reading"
    /\ readable
    /\ offset >= Len(contents)
    /\ worker' = "read_ok"
    /\ UNCHANGED <<contents, offset, cloneable, readable, caller, notified,
                   spurious, wakes, file_data, ready, waker, mutex, poisoned,
                   buf, poller, cx, lastPoll, polled>>
    /\ UNCHANGED arc
    /\ UNCHANGED <<cvars, ivars, xvars>>

\* lines 71 and 79: read_to_end is Err(_) and the closure panics.  Unwinding
\* drops the guard, which unlocks the mutex and poisons it.
WorkerReadErr ==
    /\ worker = "reading"
    /\ ~readable
    /\ worker' = "panicked"
    /\ mutex' = "free"
    /\ poisoned' = TRUE
    /\ UNCHANGED <<contents, offset, cloneable, readable, caller, notified,
                   spurious, wakes, file_data, ready, waker, buf, poller, cx,
                   lastPoll, polled>>
    /\ arc' = arc - 1
    /\ UNCHANGED <<cvars, ivars, xvars>>

\* mutant of WorkerWriteData: the buffer is not stored
WorkerWriteDataSkipped ==
    /\ worker = "read_ok"
    /\ worker' = "wrote"
    /\ UNCHANGED <<contents, offset, cloneable, readable, caller, notified,
                   spurious, wakes, file_data, ready, waker, mutex, poisoned,
                   buf, poller, cx, lastPoll, polled>>
    /\ UNCHANGED arc
    /\ UNCHANGED <<cvars, ivars, xvars>>

\* line 73: shared_state.file_data = Some(buf)
WorkerWriteData ==
    /\ worker = "read_ok"
    /\ file_data' = Some(buf)
    /\ worker' = "wrote"
    /\ UNCHANGED <<contents, offset, cloneable, readable, caller, notified,
                   spurious, wakes, ready, waker, mutex, poisoned, buf, poller,
                   cx, lastPoll, polled>>
    /\ UNCHANGED arc
    /\ UNCHANGED <<cvars, ivars, xvars>>

\* line 74: shared_state.ready = true
WorkerSetReady ==
    /\ worker = "wrote"
    /\ ready' = TRUE
    /\ worker' = "set_ready"
    /\ UNCHANGED <<contents, offset, cloneable, readable, caller, notified,
                   spurious, wakes, file_data, waker, mutex, poisoned, buf,
                   poller, cx, lastPoll, polled>>
    /\ UNCHANGED arc
    /\ UNCHANGED <<cvars, ivars, xvars>>

\* mutant of WorkerWake: the waker is taken out of the slot and dropped
\* without being invoked
WorkerWakeDropsWaker ==
    /\ worker = "set_ready"
    /\ waker' = 0
    /\ worker' = "woke"
    /\ UNCHANGED <<contents, offset, cloneable, readable, caller, notified,
                   spurious, wakes, file_data, ready, mutex, poisoned, buf,
                   poller, cx, lastPoll, polled>>
    /\ UNCHANGED arc
    /\ UNCHANGED <<cvars, ivars, xvars>>

\* mutant of WorkerWake: the waker is invoked through a reference
\* (wake_by_ref) and left in the slot
WorkerWakeKeepsWaker ==
    /\ worker = "set_ready"
    /\ IF waker # 0
       THEN /\ wakes' = [wakes EXCEPT ![waker] = @ + 1]
            /\ notified' = TRUE
       ELSE UNCHANGED <<wakes, notified>>
    /\ worker' = "woke"
    /\ UNCHANGED <<contents, offset, cloneable, readable, caller, spurious,
                   file_data, ready, waker, mutex, poisoned, buf, poller, cx,
                   lastPoll, polled>>
    /\ UNCHANGED arc
    /\ UNCHANGED <<cvars, ivars, xvars>>

\* lines 75-77: if let Some(waker) = shared_state.waker.take() { waker.wake() }
WorkerWake ==
    /\ worker = "set_ready"
    /\ IF waker # 0
       THEN /\ wakes' = [wakes EXCEPT ![waker] = @ + 1]
            /\ notified' = TRUE
       ELSE UNCHANGED <<wakes, notified>>
    /\ waker' = 0
    /\ worker' = "woke"
    /\ UNCHANGED <<contents, offset, cloneable, readable, caller, spurious,
                   file_data, ready, mutex, poisoned, buf, poller, cx,
                   lastPoll, polled>>
    /\ UNCHANGED arc
    /\ UNCHANGED <<cvars, ivars, xvars>>

\* line 81: the closure returns; the guard is dropped and the mutex unlocked.
WorkerExit ==
    /\ worker = "woke"
    /\ mutex' = "free"
    /\ worker' = "done"
    /\ UNCHANGED <<contents, offset, cloneable, readable, caller, notified,
                   spurious, wakes, file_data, ready, waker, poisoned, buf,
                   poller, cx, lastPoll, polled>>
    /\ arc' = arc - 1
    /\ UNCHANGED <<cvars, ivars, xvars>>

\* ------------------------------------------------------------ ReadFile::poll
\* lines 91-92: the executor calls poll with a Context carrying waker w, either
\* because the task was scheduled (the first poll of an await, or a wake-up)
\* or spuriously.
PollCall ==
    /\ caller = "awaiting"
    /\ poller = "idle"
    /\ notified \/ spurious < MaxSpurious
    /\ \E w \in Wakers : cx' = w
    /\ poller' = "locking"
    /\ notified' = FALSE
    /\ spurious' = IF notified THEN spurious ELSE spurious + 1
    /\ UNCHANGED <<contents, offset, cloneable, readable, caller, wakes,
                   file_data, ready, waker, mutex, poisoned, worker, buf,
                   lastPoll, polled>>
    /\ arc' = arc + 1
    /\ UNCHANGED <<cvars, ivars, xvars>>

\* line 93: cloned_shared_state.lock().unwrap().  Blocks while the worker
\* holds the mutex; on a poisoned mutex lock() is Err and unwrap() panics.
PollLock ==
    /\ poller = "locking"
    /\ mutex = "free"
    /\ IF poisoned
       THEN /\ poller' = "idle"
            /\ caller' = "panicked"
            /\ lastPoll' = PollPanic
            /\ polled' = Append(polled, PollPanic)
            /\ UNCHANGED mutex
       ELSE /\ poller' = "locked"
            /\ mutex' = "poll"
            /\ UNCHANGED <<caller, lastPoll, polled>>
    /\ UNCHANGED <<contents, offset, cloneable, readable, notified, spurious,
                   wakes, file_data, ready, waker, poisoned, worker, buf, cx>>
    /\ arc' = IF poisoned THEN arc - 2 ELSE arc
    /\ UNCHANGED <<cvars, ivars, xvars>>

\* mutant of PollCheck: the ready branch moves the bytes out of the shared
\* state (Option::take) instead of cloning them
PollCheckTakes ==
    /\ poller = "locked"
    /\ IF ready
       THEN /\ lastPoll' = IF file_data.tag = "Some"
                           THEN ReadyOk(file_data.val)
                           ELSE ReadyOk(<<>>)
            /\ polled' = Append(polled, lastPoll')
            /\ file_data' = None
            /\ mutex' = "free"
            /\ poller' = "idle"
       ELSE /\ poller' = "registering"
            /\ UNCHANGED <<lastPoll, polled, mutex, file_data>>
    /\ UNCHANGED <<contents, offset, cloneable, readable, caller, notified,
                   spurious, wakes, ready, waker, poisoned, worker, buf, cx>>
    /\ arc' = IF ready THEN arc - 1 ELSE arc
    /\ UNCHANGED <<cvars, ivars, xvars>>

\* mutant of PollCheck: the ready branch consumes the outcome, clearing the
\* flag as it returns
PollCheckConsumes ==
    /\ poller = "locked"
    /\ IF ready
       THEN /\ lastPoll' = IF file_data.tag = "Some"
                           THEN ReadyOk(file_data.val)
                           ELSE ReadyOk(<<>>)
            /\ polled' = Append(polled, lastPoll')
            /\ ready' = FALSE
            /\ mutex' = "free"
            /\ poller' = "idle"
       ELSE /\ poller' = "registering"
            /\ UNCHANGED <<lastPoll, polled, mutex, ready>>
    /\ UNCHANGED <<contents, offset, cloneable, readable, caller, notified,
                   spurious, wakes, file_data, waker, poisoned, worker, buf,
                   cx>>
    /\ arc' = IF ready THEN arc - 1 ELSE arc
    /\ UNCHANGED <<cvars, ivars, xvars>>

\* lines 94-103: the ready branch returns Poll::Ready and drops the guard;
\* otherwise the poll goes on to register its waker.
PollCheck ==
    /\ poller = "locked"
    /\ IF ready
       THEN /\ lastPoll' = IF file_data.tag = "Some"
                           THEN ReadyOk(file_data.val)
                           ELSE ReadyOk(<<>>)
            /\ polled' = Append(polled, lastPoll')
            /\ mutex' = "free"
            /\ poller' = "idle"
       ELSE /\ poller' = "registering"
            /\ UNCHANGED <<lastPoll, polled, mutex>>
    /\ UNCHANGED <<contents, offset, cloneable, readable, caller, notified,
                   spurious, wakes, file_data, ready, waker, poisoned, worker,
                   buf, cx>>
    /\ arc' = IF ready THEN arc - 1 ELSE arc
    /\ UNCHANGED <<cvars, ivars, xvars>>

\* mutant of PollRegister: the waker is stored only when the slot is empty
PollRegisterKeepsFirst ==
    /\ poller = "registering"
    /\ waker' = IF waker = 0 THEN cx ELSE waker
    /\ lastPoll' = Pending(cx)
    /\ polled' = Append(polled, Pending(cx))
    /\ mutex' = "free"
    /\ poller' = "idle"
    /\ UNCHANGED <<contents, offset, cloneable, readable, caller, notified,
                   spurious, wakes, file_data, ready, poisoned, worker, buf,
                   cx>>
    /\ arc' = arc - 1
    /\ UNCHANGED <<cvars, ivars, xvars>>

\* lines 104-107: shared_state.waker = Some(cx.waker().clone()); Poll::Pending
PollRegister ==
    /\ poller = "registering"
    /\ waker' = cx
    /\ lastPoll' = Pending(cx)
    /\ polled' = Append(polled, Pending(cx))
    /\ mutex' = "free"
    /\ poller' = "idle"
    /\ UNCHANGED <<contents, offset, cloneable, readable, caller, notified,
                   spurious, wakes, file_data, ready, poisoned, worker, buf,
                   cx>>
    /\ arc' = arc - 1
    /\ UNCHANGED <<cvars, ivars, xvars>>

\* mutant of DropPromise: dropping the promise cancels a worker that has not
\* started its read, and releases the shared state with it
DropPromiseCancelsWorker ==
    /\ caller = "awaiting"
    /\ poller = "idle"
    /\ caller' = "dropped"
    /\ worker' = IF worker = "spawned" THEN "done" ELSE worker
    /\ arc' = IF worker = "spawned" THEN 0 ELSE arc - 1
    /\ UNCHANGED <<contents, offset, cloneable, readable, notified, spurious,
                   wakes, file_data, ready, waker, mutex, poisoned, buf,
                   poller, cx, lastPoll, polled>>
    /\ UNCHANGED <<cvars, ivars, xvars>>

\* The caller drops the promise (after it resolved, or to cancel it); the
\* borrow of the File ends.
DropPromise ==
    /\ caller = "awaiting"
    /\ poller = "idle"
    /\ caller' = "dropped"
    /\ UNCHANGED <<contents, offset, cloneable, readable, notified, spurious,
                   wakes, file_data, ready, waker, mutex, poisoned, worker,
                   buf, poller, cx, lastPoll, polled>>
    /\ arc' = arc - 1
    /\ UNCHANGED <<cvars, ivars, xvars>>

\* ------------------------------------------------------------ specification
Next ==
    \/ CallerRead
    \/ ReadAsync
    \/ ReadAsyncCloneErr
    \/ WorkerLock
    \/ WorkerReadChunk
    \/ WorkerReadEof
    \/ WorkerReadErr
    \/ WorkerWriteData
    \/ WorkerSetReady
    \/ WorkerWake
    \/ WorkerExit
    \/ PollCall
    \/ PollLock
    \/ PollCheck
    \/ PollRegister
    \/ DropPromise

Spec == Init /\ [][Next]_vars

\* a poll made because the executor has the task scheduled
ScheduledPoll == notified /\ PollCall

WorkerStep ==
    \/ WorkerLock
    \/ WorkerReadChunk
    \/ WorkerReadEof
    \/ WorkerReadErr
    \/ WorkerWriteData
    \/ WorkerSetReady
    \/ WorkerWake
    \/ WorkerExit

PollStep == PollLock \/ PollCheck \/ PollRegister

\* The spawned thread keeps running, a poll that was called runs to its
\* return, and the executor polls a task it has scheduled.
FairSpec ==
    /\ Init
    /\ [][Next]_vars
    /\ WF_vars(WorkerStep)
    /\ WF_vars(PollStep)
    /\ WF_vars(ScheduledPoll)

\* ------------------------------------------------------------------ collatz
\* f of the module doc, as both functions compute it (lines 18 and 29).  The
\* values stay far below the width of usize for every n up to the bound.
CollatzF(r) == IF r % 2 = 0 THEN r \div 2 ELSE 3 * r + 1

\* test::COLLATZ_ANSWERS (line 38), the answers for n = 1..10
COLLATZ_ANSWERS == <<0, 1, 7, 2, 5, 8, 16, 3, 19, 6>>

CollatzInit ==
    /\ cfun \in {"recursive", "iterative"}
    /\ cn \in 1..MaxCollatzN
    /\ cr = cn
    /\ ci = IF cfun = "iterative" THEN 1 ELSE 0
    /\ cdepth = 0
    /\ cpc = "run"

\* collatz_iterative, lines 28-31: one turn of the while loop
IterLoop ==
    /\ cfun = "iterative"
    /\ cpc = "run"
    /\ cr # 1
    /\ cr' = CollatzF(cr)
    /\ ci' = ci + 1
    /\ UNCHANGED <<cfun, cn, cdepth, cpc>>
    /\ UNCHANGED <<avars, ivars, xvars>>

\* collatz_iterative, lines 28 and 32: the loop ends and i is returned
IterReturn ==
    /\ cfun = "iterative"
    /\ cpc = "run"
    /\ cr = 1
    /\ cpc' = "done"
    /\ UNCHANGED <<cfun, cn, cr, ci, cdepth>>
    /\ UNCHANGED <<avars, ivars, xvars>>

\* collatz_recursive, lines 17-18: n # 1, the function calls itself
RecCall ==
    /\ cfun = "recursive"
    /\ cpc = "run"
    /\ cr # 1
    /\ cr' = CollatzF(cr)
    /\ cdepth' = cdepth + 1
    /\ UNCHANGED <<cfun, cn, ci, cpc>>
    /\ UNCHANGED <<avars, ivars, xvars>>

\* collatz_recursive, lines 15-16: n == 1, the innermost call returns 1
RecBase ==
    /\ cfun = "recursive"
    /\ cpc = "run"
    /\ cr = 1
    /\ ci' = 1
    /\ cpc' = "unwind"
    /\ UNCHANGED <<cfun, cn, cr, cdepth>>
    /\ UNCHANGED <<avars, ivars, xvars>>

\* collatz_recursive, line 18: a waiting frame returns 1 + its callee's value;
\* the outermost frame's value is the result
RecReturn ==
    /\ cfun = "recursive"
    /\ cpc = "unwind"
    /\ IF cdepth > 0
       THEN /\ ci' = 1 + ci
            /\ cdepth' = cdepth - 1
            /\ UNCHANGED cpc
       ELSE /\ cpc' = "done"
            /\ UNCHANGED <<ci, cdepth>>
    /\ UNCHANGED <<cfun, cn, cr>>
    /\ UNCHANGED <<avars, ivars, xvars>>

CollatzNext ==
    \/ IterLoop
    \/ IterReturn
    \/ RecCall
    \/ RecBase
    \/ RecReturn

CollatzSpecInit == AsyncIdle /\ CollatzInit /\ IterIdle /\ CtxInit

CollatzSpec == CollatzSpecInit /\ [][CollatzNext]_vars

\* ===================================================================== claims

\* C1: when the worker's blocking read fails, the failure is stored in the
\* shared state and surfaced by a poll as Ready with an error value: neither
\* the worker nor the polling thread panics, and no poll reports a success.
C1_ReadFailureSurfaced ==
    ~readable =>
        /\ worker # "panicked"
        /\ lastPoll.kind # "Panic"
        /\ (lastPoll.kind = "Ready" => ~lastPoll.ok)

\* C2: poll never blocks: no poll waits for the mutex while the worker holds
\* it across its blocking read.
C2_PollNeverBlocks ==
    ~(poller = "locking" /\ mutex = "worker" /\ worker = "reading")

\* C3: no lost wakeup: once the worker has finished, a most recent poll that
\* returned Pending has had the waker it registered invoked; and a poll checks
\* readiness and registers its waker holding the mutex, never while the worker
\* is between its lock and the end of its write-then-notify.
C3_NoLostWakeup ==
    /\ (worker = "done" /\ lastPoll.kind = "Pending") => wakes[lastPoll.w] >= 1
    /\ poller \in {"locked", "registering"} =>
          /\ mutex = "poll"
          /\ worker \in {"none", "spawned", "done", "panicked"}

C3_Witness ==
    /\ worker = "done"
    /\ lastPoll.kind = "Pending"
    /\ wakes[lastPoll.w] = 1

\* C4: liveness: with a readable resource behind an awaited promise, under
\* fair scheduling of the worker and an executor that polls after every
\* wake-up, some poll returns Ready (unless the caller drops the promise).
C4_EventuallyReady ==
    (caller = "awaiting" /\ readable) ~> (lastPoll.kind = "Ready" \/ caller = "dropped")

C4_Witness ==
    /\ caller = "awaiting"
    /\ lastPoll.kind = "Ready"
    /\ \E w \in Wakers : wakes[w] = 1

\* C5: content fidelity: every poll that returns Ready returns Ok(B), B being
\* all the bytes of the resource.
C5_ContentFidelity ==
    lastPoll.kind = "Ready" => lastPoll = ReadyOk(contents)

\* C6: a poll that holds the lock and observes ready == true finds file_data
\* populated, so the branch returning Ready(Ok(vec![])) for None is not taken.
C6_ReadyImpliesData ==
    (poller = "locked" /\ ready) => file_data.tag = "Some"

C6_Witness ==
    /\ poller = "locked"
    /\ ready
    /\ file_data.tag = "Some"
    /\ Len(file_data.val) > 0

\* C7: single resolution: ready is never reset to false, so it goes from false
\* to true at most once, and it has done so when the worker returns.
C7_SingleResolution ==
    [][(ready => ready') /\ (worker' = "done" => ready')]_vars

C7_Witness ==
    /\ ready
    /\ worker = "done"
    /\ lastPoll.kind = "Ready"
    /\ spurious > 0

\* C8: when duplicating the handle fails, read_async reports the failure as
\* an error value and the calling thread does not panic.
C8_CloneFailureReported ==
    ~cloneable => caller # "panicked"

\* the number i of applications of f with f^i(n) = 1
RECURSIVE StepsToOne(_)
StepsToOne(n) == IF n = 1 THEN 0 ELSE 1 + StepsToOne(CollatzF(n))

\* C10: collatz_recursive(n) and collatz_iterative(n) return the number i of
\* applications of f with f^i(n) = 1, which for n = 1..10 is COLLATZ_ANSWERS.
C10_CollatzAnswers ==
    cpc = "done" =>
        /\ ci = StepsToOne(cn)
        /\ cn <= Len(COLLATZ_ANSWERS) => ci = COLLATZ_ANSWERS[cn]

\* ------------------------------------------------- asyncfs, further claims
RECURSIVE SumWakes(_)
SumWakes(k) == IF k = 0 THEN 0 ELSE wakes[k] + SumWakes(k - 1)

\* invocations of any waker so far
TotalWakes == SumWakes(NumWakers)

\* the worker owns thread_shared_state from the spawn to the end of the closure
WorkerLive ==
    worker \in {"spawned", "reading", "read_ok", "wrote", "set_ready", "woke"}

\* C13: the worker invokes a waker only by taking one out of the slot, holding
\* the lock, and the slot is empty from then on; a waker present at completion
\* is invoked exactly once; over the whole invocation at most one wake happens
\* (none when no poll registered a waker before completion).
C13_WakeOnce ==
    [][/\ TotalWakes' <= 1
       /\ TotalWakes' # TotalWakes =>
             /\ waker # 0
             /\ wakes' = [wakes EXCEPT ![waker] = @ + 1]
             /\ waker' = 0
             /\ mutex = "worker" /\ mutex' = "worker"
             /\ worker = "set_ready"
       /\ (worker = "set_ready" /\ worker' = "woke" /\ waker # 0) =>
             TotalWakes' = TotalWakes + 1
       /\ worker' \in {"woke", "done"} => waker' = 0]_vars

C13_Witness ==
    /\ worker = "done"
    /\ TotalWakes = 1
    /\ waker = 0
    /\ Len(polled) >= 2

\* C14: once a poll has returned Ready, every later poll returns Ready with
\* the same bytes, no poll panics, and file_data, ready and waker stay as
\* they are.
C14_RepeatableReady ==
    [][lastPoll.kind = "Ready" =>
          /\ lastPoll' = lastPoll
          /\ polled' # polled => polled'[Len(polled')] = lastPoll
          /\ caller' # "panicked"
          /\ UNCHANGED <<file_data, ready, waker>>]_vars

C14_Witness ==
    /\ Len(polled) >= 2
    /\ polled[Len(polled)].kind = "Ready"
    /\ polled[Len(polled) - 1].kind = "Ready"
    /\ Len(lastPoll.val) > 0
    /\ poller = "idle"

\* C15: ready and file_data are written by the worker's steps only; a poll that
\* returns Pending changes nothing but the waker slot, which then holds its
\* waker; a poll that returns Ready changes nothing; and all the polls that
\* returned Ready returned the same value.
C15_PollFrame ==
    [][/\ (file_data' # file_data \/ ready' # ready) =>
             (worker' # worker /\ poller' = poller /\ polled' = polled)
       /\ (poller' # poller /\ polled' = polled) => waker' = waker
       /\ (polled' # polled /\ lastPoll'.kind = "Pending") => waker' = lastPoll'.w
       /\ (polled' # polled /\ lastPoll'.kind = "Ready") => waker' = waker
       /\ \A i, j \in DOMAIN polled' :
             (polled'[i].kind = "Ready" /\ polled'[j].kind = "Ready")
                 => polled'[i] = polled'[j]]_vars

C15_Witness ==
    /\ Len(polled) >= 3
    /\ polled[1].kind = "Pending"
    /\ polled[Len(polled)].kind = "Ready"
    /\ polled[Len(polled) - 1].kind = "Ready"
    /\ spurious = MaxSpurious

\* C16: a poll that returns Pending overwrites the waker slot with its own
\* waker, and the waker the worker invokes on completion is the one registered
\* by the most recent of the polls that returned Pending.
C16_MostRecentWaker ==
    [][/\ (polled' # polled /\ lastPoll'.kind = "Pending") => waker' = lastPoll'.w
       /\ TotalWakes' # TotalWakes =>
             /\ lastPoll.kind = "Pending"
             /\ wakes' = [wakes EXCEPT ![lastPoll.w] = @ + 1]]_vars

C16_Witness ==
    /\ worker = "done"
    /\ Len(polled) >= 2
    /\ lastPoll.kind = "Pending"
    /\ polled[1].kind = "Pending"
    /\ polled[1].w # lastPoll.w
    /\ wakes[lastPoll.w] = 1
    /\ wakes[polled[1].w] = 0

\* C17: dropping the promise, at any point, does not stop the worker: it still
\* runs to completion and stores the outcome, and the shared state is not
\* released while the promise or the worker still holds it.
C17_DropKeepsWorker ==
    /\ []((caller = "awaiting" \/ WorkerLive) => arc >= 1)
    /\ []((arc = 0 /\ caller = "dropped") => worker \in {"done", "panicked"})
    /\ (caller = "dropped" /\ readable)
          ~> (worker = "done" /\ ready /\ file_data.tag = "Some" /\ arc = 0)

C17_Witness ==
    /\ caller = "dropped"
    /\ lastPoll.kind = "Pending"
    /\ worker = "reading"
    /\ arc = 1

\* the position at which the caller's File reads
CallerPos == offset
\* the position at which the worker's file_copy reads
WorkerPos == offset

\* C18: the worker's handle shares no descriptor state with the caller's:
\* while the caller is free to use its File and the worker has not finished
\* reading, a read by the worker leaves the caller's position unchanged and a
\* read by the caller leaves the worker's position unchanged.
C18_IndependentCursors ==
    [][(caller = "dropped" /\ worker \in {"spawned", "reading"}) =>
          /\ buf' # buf => CallerPos' = CallerPos
          /\ buf' = buf => WorkerPos' = WorkerPos]_vars

\* ======================================================== cartesian product
RECURSIVE ItemSeqsUpTo(_)
ItemSeqsUpTo(k) ==
    IF k = 0 THEN {<<>>}
    ELSE LET S == ItemSeqsUpTo(k - 1)
         IN  S \cup {Append(s, b) : s \in {t \in S : Len(t) = k - 1}, b \in Items}

\* CacheableIterator::next, lines 47-60: the iterator after the call and what
\* the call returns
CacheNext(c) ==
    IF c.iter = <<>>
    THEN [c |-> c, res |-> NoneT]
    ELSE [c |-> [iter |-> Tail(c.iter),
                 cache |-> Append(c.cache, Head(c.iter)),
                 last_idx |-> IF c.last_idx = NoIdx THEN 0 ELSE c.last_idx + 1],
          res |-> SomeT(Head(c.iter))]

\* CacheableIterator::ith, lines 62-70
RECURSIVE CacheIth(_, _)
CacheIth(c, i) ==
    IF (IF c.last_idx = NoIdx THEN TRUE ELSE c.last_idx < i)
    THEN LET n == CacheNext(c)
         IN  IF n.res.tag = "None"
             THEN [c |-> n.c, res |-> NoneT]
             ELSE CacheIth(n.c, i)
    ELSE [c |-> c, res |-> SomeT(c.cache[i + 1])]

\* x.cartesian_product(y), lines 83-86 and 124-126, for any two finite inputs
IterInit ==
    /\ xs \in ItemSeqsUpTo(MaxIterLen)
    /\ ys \in ItemSeqsUpTo(MaxIterLen)
    /\ first = NewCacheable(xs)
    /\ second = NewCacheable(ys)
    /\ idx_first = 0
    /\ idx_second = 0
    /\ ipc = "idle"
    /\ iters = 0
    /\ out = <<>>

\* the consumer calls next(), also after it has returned None
IterNextCall ==
    /\ ipc = "idle"
    /\ Len(out) < Len(xs) * Len(ys) + 1 + MaxExtraCalls
    /\ ipc' = "loop"
    /\ iters' = 0
    /\ UNCHANGED <<xs, ys, first, second, idx_first, idx_second, out>>
    /\ UNCHANGED <<avars, cvars, xvars>>

\* mutant of CartLoop: idx_second is not reset when a row ends
CartLoopNoReset ==
    /\ ipc = "loop"
    /\ LET a == CacheIth(first, idx_first)
           b == CacheIth(second, idx_second)
       IN  /\ first' = a.c
           /\ second' = b.c
           /\ iters' = iters + 1
           /\ IF a.res.tag = "None"
              THEN /\ out' = Append(out, None)
                   /\ ipc' = "idle"
                   /\ UNCHANGED <<idx_first, idx_second>>
              ELSE IF b.res.tag = "None"
              THEN /\ idx_first' = idx_first + 1
                   /\ UNCHANGED <<idx_second, out, ipc>>
              ELSE /\ idx_second' = idx_second + 1
                   /\ out' = Append(out, Some(<<a.res.val, b.res.val>>))
                   /\ ipc' = "idle"
                   /\ UNCHANGED idx_first
    /\ UNCHANGED <<xs, ys>>
    /\ UNCHANGED <<avars, cvars, xvars>>

\* mutant of CartLoop: idx_first is not advanced when the second input has
\* nothing at idx_second
CartLoopNoAdvance ==
    /\ ipc = "loop"
    /\ LET a == CacheIth(first, idx_first)
           b == CacheIth(second, idx_second)
       IN  /\ first' = a.c
           /\ second' = b.c
           /\ iters' = iters + 1
           /\ IF a.res.tag = "None"
              THEN /\ out' = Append(out, None)
                   /\ ipc' = "idle"
                   /\ UNCHANGED <<idx_first, idx_second>>
              ELSE IF b.res.tag = "None"
              THEN /\ idx_second' = 0
                   /\ UNCHANGED <<idx_first, out, ipc>>
              ELSE /\ idx_second' = idx_second + 1
                   /\ out' = Append(out, Some(<<a.res.val, b.res.val>>))
                   /\ ipc' = "idle"
                   /\ UNCHANGED idx_first
    /\ UNCHANGED <<xs, ys>>
    /\ UNCHANGED <<avars, cvars, xvars>>

\* CartesianIterator::next, lines 94-113: one turn of the loop
CartLoop ==
    /\ ipc = "loop"
    /\ LET a == CacheIth(first, idx_first)
           b == CacheIth(second, idx_second)
       IN  /\ first' = a.c
           /\ second' = b.c
           /\ iters' = iters + 1
           /\ IF a.res.tag = "None"
              THEN /\ out' = Append(out, None)
                   /\ ipc' = "idle"
                   /\ UNCHANGED <<idx_first, idx_second>>
              ELSE IF b.res.tag = "None"
              THEN /\ idx_first' = idx_first + 1
                   /\ idx_second' = 0
                   /\ UNCHANGED <<out, ipc>>
              ELSE /\ idx_second' = idx_second + 1
                   /\ out' = Append(out, Some(<<a.res.val, b.res.val>>))
                   /\ ipc' = "idle"
                   /\ UNCHANGED idx_first
    /\ UNCHANGED <<xs, ys>>
    /\ UNCHANGED <<avars, cvars, xvars>>

IterNext ==
    \/ IterNextCall
    \/ CartLoop

IterSpecInit == AsyncIdle /\ CollatzIdle /\ IterInit /\ CtxInit

IterSpec == IterSpecInit /\ [][IterNext]_vars

\* the k-th result of the product of xs and ys in row-major order, None past
\* the last pair
ExpectedAt(k) ==
    IF k <= Len(xs) * Len(ys)
    THEN Some(<<xs[((k - 1) \div Len(ys)) + 1], ys[((k - 1) % Len(ys)) + 1]>>)
    ELSE None

\* C11: the calls of next() return the Len(xs) * Len(ys) pairs (xs[i], ys[j]),
\* each once, in row-major order, and None from then on.
C11_RowMajorProduct ==
    \A k \in DOMAIN out : out[k] = ExpectedAt(k)

C11_Witness ==
    /\ Len(xs) = 3
    /\ Len(ys) = 2
    /\ xs[1] # xs[2]
    /\ ys[1] # ys[2]
    /\ Len(out) = 7
    /\ ipc = "idle"

\* C19: with an empty first input next() returns None in its first turn of the
\* loop; with an empty second input it returns None after at most one turn per
\* item of the first input and one more, having stepped idx_first through the
\* whole first input, and never yields a pair.
C19_EmptyInputTerminates ==
    /\ xs = <<>> =>
          /\ iters <= 1
          /\ iters = 1 => ipc = "idle"
          /\ \A k \in DOMAIN out : out[k] = None
    /\ ys = <<>> =>
          /\ iters <= Len(xs) + 1
          /\ iters = Len(xs) + 1 => ipc = "idle"
          /\ idx_first <= Len(xs)
          /\ out # <<>> => (idx_first = Len(xs) /\ first.cache = xs)
          /\ \A k \in DOMAIN out : out[k] = None

C19_Witness ==
    /\ Len(xs) = 3
    /\ ys = <<>>
    /\ out = <<None>>
    /\ iters = 4
    /\ idx_first = 3

\* ================================================================== context
\* Context::get, lines 53-56, on the vector v
CtxGetOf(v) == IF v = <<>> THEN NoneT ELSE SomeT(v[Len(v)])

\* what get() returns in the current state
CtxGet == CtxGetOf(values)

\* Vec::pop of line 61: nothing happens on an empty vector
VecPop(v) == IF v = <<>> THEN <<>> ELSE SubSeq(v, 1, Len(v) - 1)

\* calls of set() made so far, finished or not
SetsSoFar == nextId + Cardinality({u \in Threads : tpc[u] = "set"})

GuardById(g) == CHOOSE d \in {guards[k] : k \in DOMAIN guards} : d.id = g

WithoutGuard(g) == SelectSeq(guards, LAMBDA d : d.id # g)

ctxFrame == <<avars, cvars, ivars>>

\* lines 46-47: a thread calls set(v) and gets through
\* self.values.lock().unwrap(), which blocks while another thread holds the
\* lock
CtxSetLock(t) ==
    /\ tpc[t] = "idle"
    /\ SetsSoFar < MaxSets
    /\ xmutex = 0
    /\ xmutex' = t
    /\ \E v \in Vals : targ' = [targ EXCEPT ![t] = v]
    /\ tpc' = [tpc EXCEPT ![t] = "set"]
    /\ UNCHANGED <<values, got, guards, nextId, nested, directPop>>
    /\ UNCHANGED ctxFrame

\* mutant of CtxSetPush: set overwrites the current value instead of pushing
CtxSetPushReplaces(t) ==
    /\ tpc[t] = "set"
    /\ values' = Append(VecPop(values), targ[t])
    /\ guards' = Append(guards, [id |-> nextId + 1, val |-> targ[t],
                                 before |-> CtxGet])
    /\ nextId' = nextId + 1
    /\ xmutex' = 0
    /\ tpc' = [tpc EXCEPT ![t] = "idle"]
    /\ targ' = [targ EXCEPT ![t] = 0]
    /\ UNCHANGED <<got, nested, directPop>>
    /\ UNCHANGED ctxFrame

\* lines 48-50: the value is pushed and the Dropper returned; the lock is
\* released as set returns.  The Dropper records what get() returned before.
CtxSetPush(t) ==
    /\ tpc[t] = "set"
    /\ values' = Append(values, targ[t])
    /\ guards' = Append(guards, [id |-> nextId + 1, val |-> targ[t],
                                 before |-> CtxGet])
    /\ nextId' = nextId + 1
    /\ xmutex' = 0
    /\ tpc' = [tpc EXCEPT ![t] = "idle"]
    /\ targ' = [targ EXCEPT ![t] = 0]
    /\ UNCHANGED <<got, nested, directPop>>
    /\ UNCHANGED ctxFrame

\* lines 35-37 and 59-60: a thread drops a live Dropper, which calls
\* ctx.pop(), and gets through the lock.  Nothing makes the drops follow the
\* order of the sets.
CtxDropLock(t) ==
    /\ tpc[t] = "idle"
    /\ xmutex = 0
    /\ xmutex' = t
    /\ \E k \in DOMAIN guards : targ' = [targ EXCEPT ![t] = guards[k].id]
    /\ tpc' = [tpc EXCEPT ![t] = "pop"]
    /\ UNCHANGED <<values, got, guards, nextId, nested, directPop>>
    /\ UNCHANGED ctxFrame

\* lines 59-60: pop() is public; a thread calls it directly and gets through
\* the lock
CtxPopLock(t) ==
    /\ tpc[t] = "idle"
    /\ ~directPop
    /\ xmutex = 0
    /\ xmutex' = t
    /\ directPop' = TRUE
    /\ tpc' = [tpc EXCEPT ![t] = "pop"]
    /\ UNCHANGED <<values, targ, got, guards, nextId, nested>>
    /\ UNCHANGED ctxFrame

\* mutant of CtxPopBody: the oldest value is removed (remove(0)), not the
\* newest
CtxPopBodyRemovesFirst(t) ==
    /\ tpc[t] = "pop"
    /\ values' = IF values = <<>> THEN <<>> ELSE Tail(values)
    /\ IF targ[t] # 0
       THEN /\ guards' = WithoutGuard(targ[t])
            /\ nested' = (nested /\ guards[Len(guards)].id = targ[t])
       ELSE UNCHANGED <<guards, nested>>
    /\ xmutex' = 0
    /\ tpc' = [tpc EXCEPT ![t] = "idle"]
    /\ targ' = [targ EXCEPT ![t] = 0]
    /\ UNCHANGED <<got, nextId, directPop>>
    /\ UNCHANGED ctxFrame

\* lines 61-62: the newest value is popped and the lock released; a Dropper
\* whose drop this is exists no more
CtxPopBody(t) ==
    /\ tpc[t] = "pop"
    /\ values' = VecPop(values)
    /\ IF targ[t] # 0
       THEN /\ guards' = WithoutGuard(targ[t])
            /\ nested' = (nested /\ guards[Len(guards)].id = targ[t])
       ELSE UNCHANGED <<guards, nested>>
    /\ xmutex' = 0
    /\ tpc' = [tpc EXCEPT ![t] = "idle"]
    /\ targ' = [targ EXCEPT ![t] = 0]
    /\ UNCHANGED <<got, nextId, directPop>>
    /\ UNCHANGED ctxFrame

\* lines 52-53: a thread calls get() and gets through the lock
CtxGetLock(t) ==
    /\ tpc[t] = "idle"
    /\ xmutex = 0
    /\ xmutex' = t
    /\ tpc' = [tpc EXCEPT ![t] = "get"]
    /\ UNCHANGED <<values, targ, got, guards, nextId, nested, directPop>>
    /\ UNCHANGED ctxFrame

\* lines 53-57: the newest value, if any, is returned and the lock released
CtxGetBody(t) ==
    /\ tpc[t] = "get"
    /\ got' = CtxGet
    /\ xmutex' = 0
    /\ tpc' = [tpc EXCEPT ![t] = "idle"]
    /\ UNCHANGED <<values, targ, guards, nextId, nested, directPop>>
    /\ UNCHANGED ctxFrame

CtxNext ==
    \E t \in Threads :
        \/ CtxSetLock(t)
        \/ CtxSetPush(t)
        \/ CtxDropLock(t)
        \/ CtxPopLock(t)
        \/ CtxPopBody(t)
        \/ CtxGetLock(t)
        \/ CtxGetBody(t)

CtxSpecInit == AsyncIdle /\ CollatzIdle /\ IterIdle /\ CtxInit

CtxSpec == CtxSpecInit /\ [][CtxNext]_vars

\* C12: get() on a fresh Context returns None; when set(t) returns get() is
\* Some(t); and, the sets and drops so far being properly nested (every drop
\* that of the newest live Dropper, pop() called by drops only), when the drop
\* of a Dropper returns get() is what it was just before the set that made it.
C12_ContextScoping ==
    [][\A t \in Threads :
          /\ (tpc[t] = "get" /\ tpc'[t] = "idle" /\ nextId = 0) => got' = NoneT
          /\ (tpc[t] = "get" /\ tpc'[t] = "idle") => got' = CtxGet'
          /\ (tpc[t] = "set" /\ tpc'[t] = "idle") => CtxGet' = SomeT(targ[t])
          /\ (tpc[t] = "pop" /\ tpc'[t] = "idle" /\ targ[t] # 0
                /\ nested' /\ ~directPop)
                => CtxGet' = GuardById(targ[t]).before]_vars

C12_Witness ==
    /\ nested
    /\ ~directPop
    /\ nextId = 2
    /\ Len(guards) = 1
    /\ guards[1].id = 1
    /\ values = <<guards[1].val>>
    /\ got = SomeT(guards[1].val)
    /\ \A t \in Threads : tpc[t] = "idle"

\* C20: in every interleaving of the threads, pop() being called by
\* Dropper::drop only, the stack holds as many values as there are Droppers
\* created and not yet dropped, so that get() is None once all are dropped.
C20_StackMatchesGuards ==
    ~directPop =>
        /\ Len(values) = Len(guards)
        /\ guards = <<>> => CtxGet = NoneT

C20_Witness ==
    /\ ~directPop
    /\ ~nested
    /\ Len(guards) = 1
    /\ Len(values) = 1
    /\ values[1] # guards[1].val
    /\ xmutex = 0

====
